---- MODULE Spec2Model ----
(***************************************************************************)
(* Universal Data Converter (src/app.py): the decoders (_read_csv,         *)
(* _read_excel, _read_json, _read_xml, _read_pdf), the dispatchers         *)
(* (read_file, df_to_bytes), the encoders inside df_to_bytes and the       *)
(* per-file upload loop of the Streamlit script.                           *)
(*                                                                         *)
(* Python strings are sequences of one-character strings, so that lower(), *)
(* strip(), split(), startswith() and sorted() are computed and not        *)
(* assumed.  A Python value is a node [k, s, items]: k its type name, s    *)
(* what str(v) returns, items its elements (list) or members (dict).       *)
(* The outcome of a library call on a file's bytes (pandas, json,          *)
(* ElementTree, pdfplumber) is part of the file's description (payload).   *)
(***************************************************************************)
EXTENDS Integers, Sequences, FiniteSets, TLC

VARIABLES uploaded, out_fmt, HAS_PDF, idx, suffix, pc, dfs, ret, ui

vars == <<uploaded, out_fmt, HAS_PDF, idx, suffix, pc, dfs, ret, ui>>

------------------------------------------------------------------------------
(* Bounds of the model *)

MaxFiles == 2
MaxTables == 2
MaxRows == 2
MaxLines == 2
MaxNodes == 4
MaxPages == 6

------------------------------------------------------------------------------
(* Python str *)

UpperAlpha ==
  <<"A","B","C","D","E","F","G","H","I","J","K","L","M",
    "N","O","P","Q","R","S","T","U","V","W","X","Y","Z">>

LowerAlpha ==
  <<"a","b","c","d","e","f","g","h","i","j","k","l","m",
    "n","o","p","q","r","s","t","u","v","w","x","y","z">>

Whitespace == {" ", "\t", "\n", "\r"}

LowerChar(c) ==
  IF \E i \in 1..26 : UpperAlpha[i] = c
    THEN LowerAlpha[CHOOSE i \in 1..26 : UpperAlpha[i] = c]
    ELSE c

\* str.lower()
Lower(s) == [i \in 1..Len(s) |-> LowerChar(s[i])]

\* ord() of the characters the model uses: letters by their code point,
\* every other character below them.
Ord(c) ==
  IF \E i \in 1..26 : UpperAlpha[i] = c
    THEN 64 + (CHOOSE i \in 1..26 : UpperAlpha[i] = c)
    ELSE IF \E i \in 1..26 : LowerAlpha[i] = c
      THEN 96 + (CHOOSE i \in 1..26 : LowerAlpha[i] = c)
      ELSE 32

\* s < t in Python's string order (lexicographic by code point)
RECURSIVE StrLess(_, _)
StrLess(s, t) ==
  IF t = <<>> THEN FALSE
  ELSE IF s = <<>> THEN TRUE
  ELSE IF Ord(Head(s)) # Ord(Head(t)) THEN Ord(Head(s)) < Ord(Head(t))
  ELSE StrLess(Tail(s), Tail(t))

RECURSIVE LStrip(_)
LStrip(s) ==
  IF s # <<>> /\ Head(s) \in Whitespace THEN LStrip(Tail(s)) ELSE s

RECURSIVE RStrip(_)
RStrip(s) ==
  IF s # <<>> /\ s[Len(s)] \in Whitespace
    THEN RStrip(SubSeq(s, 1, Len(s) - 1))
    ELSE s

\* str.strip()
Strip(s) == RStrip(LStrip(s))

\* str.startswith(p)
StartsWith(s, p) == Len(s) >= Len(p) /\ SubSeq(s, 1, Len(p)) = p

\* s.split(".")[-1]: what follows the last "." (the whole of s without one)
RECURSIVE LastPart(_)
LastPart(s) ==
  IF \E i \in 1..Len(s) : s[i] = "."
    THEN LastPart(SubSeq(s, (CHOOSE i \in 1..Len(s) : s[i] = ".") + 1, Len(s)))
    ELSE s

Digits == <<"0","1","2","3","4","5","6","7","8","9">>

\* str(n) of a natural number, as the f-strings f"Sheet{i}" format it
RECURSIVE IntStr(_)
IntStr(n) ==
  IF n < 10 THEN <<Digits[n + 1]>>
  ELSE IntStr(n \div 10) \o <<Digits[(n % 10) + 1]>>

\* sorted(set of str)
RECURSIVE Sorted(_)
Sorted(S) ==
  IF S = {} THEN <<>>
  ELSE LET m == CHOOSE x \in S : \A y \in S \ {x} : StrLess(x, y)
       IN <<m>> \o Sorted(S \ {m})

Range(f) == {f[i] : i \in DOMAIN f}

------------------------------------------------------------------------------
(* Python values *)

PyNone == [k |-> "NoneType", s |-> <<"N","o","n","e">>, items |-> <<>>]
PyNaN == [k |-> "float", s |-> <<"n","a","n">>, items |-> <<>>]
PyInt(n) == [k |-> "int", s |-> IntStr(n), items |-> <<>>]
PyStr(s) == [k |-> "str", s |-> s, items |-> <<>>]
\* a pandas Timestamp cell (a date column of a workbook)
PyTimestamp ==
  [k |-> "Timestamp",
   s |-> <<"2","0","2","0","-","0","1","-","0","1"," ","0","0",":","0","0",":","0","0">>,
   items |-> <<>>]

\* repr(v): a str in quotes, everything else as str(v)
Repr(v) == IF v.k = "str" THEN <<"'">> \o v.s \o <<"'">> ELSE v.s

RECURSIVE JoinRepr(_)
JoinRepr(vs) ==
  IF vs = <<>> THEN <<>>
  ELSE IF Len(vs) = 1 THEN Repr(vs[1])
  ELSE Repr(vs[1]) \o <<",", " ">> \o JoinRepr(Tail(vs))

\* a list; str(list) is "[" + ", ".join(repr(x)) + "]" (str() is taken of
\* lists of scalars only)
PyList(vs) == [k |-> "list", s |-> <<"[">> \o JoinRepr(vs) \o <<"]">>, items |-> vs]

\* one key: value member of a dict (str() of a dict is taken nowhere in the
\* code paths modelled; only its members are used)
PyItem(key, val) == [k |-> "item", s |-> <<>>, items |-> <<key, val>>]

\* a dict with its members in insertion order
PyDict(members) == [k |-> "dict", s |-> <<>>, items |-> members]

Key(item) == item.items[1]
Val(item) == item.items[2]

\* str(v)
Str(v) == v.s

IsStr(v) == v.k = "str"
IsList(v) == v.k = "list"
IsDict(v) == v.k = "dict"

\* pandas.isna for a cell
IsNull(v) == v = PyNone \/ v = PyNaN

------------------------------------------------------------------------------
(* pandas.DataFrame: column labels and rows of cells, one cell per column *)

DataFrame(columns, rows) == [columns |-> columns, rows |-> rows]

\* df.to_dict(orient="records"): one dict per row, keys in column order
ToRecords(df) ==
  [r \in 1..Len(df.rows) |->
     [c \in 1..Len(df.columns) |-> PyItem(df.columns[c], df.rows[r][c])]]

------------------------------------------------------------------------------
(* Results of a call: a returned value or a raised exception *)

Ok(v) == [ok |-> TRUE, val |-> v]
Raise(e) == [ok |-> FALSE, err |-> e]

------------------------------------------------------------------------------
(* Encoders: df_to_bytes.  A byte buffer is represented by the document it  *)
(* serializes: the CSV records, the workbook's sheets, the JSON value, the  *)
(* element tree.                                                            *)

\* df.to_csv(buf, index=False): the header record, then one record per row;
\* a missing value (None, NaN) is written as the empty field (na_rep="")
ToCsv(df) ==
  <<[c \in 1..Len(df.columns) |-> Str(df.columns[c])]>> \o
  [r \in 1..Len(df.rows) |->
     [c \in 1..Len(df.columns) |->
        IF IsNull(df.rows[r][c]) THEN <<>> ELSE Str(df.rows[r][c])]]

\* CsvSource, were the last table written
CsvSourceLast(tables) == tables[Len(tables)]

\* the table the CSV branch writes: dfs[0]
CsvSource(tables) == tables[1]

\* the workbook ExcelWriter saves: one sheet per table, named Sheet{i}
ToExcel(tables) ==
  [i \in 1..Len(tables) |->
     [name |-> <<"S","h","e","e","t">> \o IntStr(i), df |-> tables[i]]]

\* openpyxl refuses a cell holding a list, and a workbook without a sheet
ExcelWritable(tables) ==
  /\ tables # <<>>
  /\ \A i \in 1..Len(tables) : \A r \in 1..Len(tables[i].rows) :
       \A c \in 1..Len(tables[i].columns) : ~IsList(tables[i].rows[r][c])

\* data = [df.to_dict(orient="records") for df in dfs]
JsonData(tables) ==
  [i \in 1..Len(tables) |->
     PyList([r \in 1..Len(tables[i].rows) |-> PyDict(ToRecords(tables[i])[r])])]

\* JsonPayload, were the single table wrapped like several
JsonPayloadWrapped(data) == PyList(data)

\* data[0] if len(data) == 1 else data
JsonPayload(data) == IF Len(data) = 1 THEN data[1] ELSE PyList(data)

\* json.dumps raises TypeError on a value that is no JSON type
JsonSerializable(tables) ==
  \A i \in 1..Len(tables) : \A r \in 1..Len(tables[i].rows) :
    \A c \in 1..Len(tables[i].columns) : tables[i].rows[r][c].k # "Timestamp"

Element(tag, attrib, text, children) ==
  [tag |-> tag, attrib |-> attrib, text |-> text, children |-> children]

\* tag = k if isinstance(k, str) and k.strip() else "field"
CellTag(key) ==
  IF IsStr(key) /\ Strip(Str(key)) # <<>> THEN Str(key) ELSE <<"f","i","e","l","d">>

\* cell.text = "" if v is None else str(v)
CellText(v) == IF v = PyNone THEN <<>> ELSE Str(v)

\* the <dataset> tree of the XML branch
ToXml(tables) ==
  Element(<<"d","a","t","a","s","e","t">>, <<>>, <<>>,
    [i \in 1..Len(tables) |->
       Element(<<"s","h","e","e","t">>,
               <<[name |-> <<"n","a","m","e">>,
                  value |-> <<"S","h","e","e","t">> \o IntStr(i)]>>,
               <<>>,
               [r \in 1..Len(tables[i].rows) |->
                  Element(<<"r","o","w">>, <<>>, <<>>,
                    [c \in 1..Len(tables[i].columns) |->
                       Element(CellTag(tables[i].columns[c]), <<>>,
                               CellText(tables[i].rows[r][c]), <<>>)])])])

Buffer(kind, doc, mime) == [kind |-> kind, doc |-> doc, mime |-> mime]

\* output.startswith("excel")
IsExcelTag(o) == StartsWith(o, <<"e","x","c","e","l">>)

\* which branch of df_to_bytes the (lower-cased) tag selects
Encoder(output) ==
  LET o == Lower(output) IN
  IF o = <<"c","s","v">> THEN "csv"
  ELSE IF IsExcelTag(o) THEN "excel"
  ELSE IF o = <<"j","s","o","n">> THEN "json"
  ELSE IF o = <<"x","m","l">> THEN "xml"
  ELSE "none"

df_to_bytes(tables, output) ==
  LET e == Encoder(output) IN
  IF e = "csv" THEN
    IF tables = <<>> THEN Raise("IndexError")
    ELSE Ok(Buffer("csv", ToCsv(CsvSource(tables)), "text/csv"))
  ELSE IF e = "excel" THEN
    IF ExcelWritable(tables)
      THEN Ok(Buffer("xlsx", ToExcel(tables),
             "application/vnd.openxmlformats-officedocument.spreadsheetml.sheet"))
      ELSE Raise(IF tables = <<>> THEN "IndexError" ELSE "ValueError")
  ELSE IF e = "json" THEN
    IF JsonSerializable(tables)
      THEN Ok(Buffer("json", JsonPayload(JsonData(tables)), "application/json"))
      ELSE Raise("TypeError")
  ELSE IF e = "xml" THEN
    Ok(Buffer("xml", ToXml(tables), "application/xml"))
  ELSE Raise("ValueError: Unsupported output format.")

------------------------------------------------------------------------------
(* dict and DataFrame construction *)

RECURSIVE Concat(_)
Concat(ss) == IF ss = <<>> THEN <<>> ELSE Head(ss) \o Concat(Tail(ss))

\* the elements of s, each kept at its first occurrence
RECURSIVE Dedup(_)
Dedup(s) ==
  IF s = <<>> THEN <<>>
  ELSE LET r == Dedup(SubSeq(s, 1, Len(s) - 1))
       IN IF s[Len(s)] \in Range(r) THEN r ELSE Append(r, s[Len(s)])

HasKey(members, key) == \E i \in 1..Len(members) : Key(members[i]) = key

\* d[key] = val: a new key goes last, a known key keeps its place
SetItem(members, key, val) ==
  IF HasKey(members, key)
    THEN [i \in 1..Len(members) |->
            IF Key(members[i]) = key THEN PyItem(key, val) ELSE members[i]]
    ELSE Append(members, PyItem(key, val))

\* the dict a comprehension or a literal builds from its pairs, in order
RECURSIVE DictOf(_)
DictOf(pairs) ==
  IF pairs = <<>> THEN <<>>
  ELSE LET last == pairs[Len(pairs)]
       IN SetItem(DictOf(SubSeq(pairs, 1, Len(pairs) - 1)), Key(last), Val(last))

\* d.get(key, default)
GetItem(members, key, default) ==
  IF HasKey(members, key)
    THEN Val(members[CHOOSE i \in 1..Len(members) : Key(members[i]) = key])
    ELSE default

\* the keys of all records, in first-seen order
AllKeys(records) ==
  Dedup(Concat([r \in 1..Len(records) |->
                  [c \in 1..Len(records[r]) |-> Key(records[r][c])]]))

\* pd.DataFrame(records, columns=columns): a key a record lacks is NaN
FrameOfRecords(records, columns) ==
  DataFrame(columns,
    [r \in 1..Len(records) |->
       [c \in 1..Len(columns) |-> GetItem(records[r], columns[c], PyNaN)]])

------------------------------------------------------------------------------
(* _read_csv, _read_excel *)

\* pd.read_csv(file) raises or returns one frame
_read_csv(file) ==
  IF file.read_csv.ok THEN Ok(<<file.read_csv.val>>) ELSE file.read_csv

\* [xls.parse(sheet_name) for sheet_name in xls.sheet_names]
_read_excel(file) ==
  IF file.ExcelFile.ok
    THEN Ok([i \in 1..Len(file.ExcelFile.val) |-> file.ExcelFile.val[i].df])
    ELSE file.ExcelFile

------------------------------------------------------------------------------
(* _read_json *)

\* the JSONL retry: the values of the lines json.loads accepts
RECURSIVE ParsedLines(_)
ParsedLines(lines) ==
  IF lines = <<>> THEN <<>>
  ELSE IF Head(lines).ok THEN <<Head(lines).val>> \o ParsedLines(Tail(lines))
  ELSE ParsedLines(Tail(lines))

\* json.loads(raw), else the list of the lines that parse
JsonLoad(file) ==
  IF file.doc.ok THEN file.doc.val ELSE PyList(ParsedLines(file.lines))

\* a record with its nested records flattened to dotted keys
RECURSIVE FlattenRecord(_, _)
FlattenRecord(prefix, members) ==
  IF members = <<>> THEN <<>>
  ELSE LET m == Head(members)
           key == PyStr(prefix \o Str(Key(m)))
       IN (IF IsDict(Val(m))
             THEN FlattenRecord(Str(key) \o <<".">>, Val(m).items)
             ELSE <<PyItem(key, Val(m))>>)
          \o FlattenRecord(prefix, Tail(members))

\* pd.json_normalize(list of records): one row per record
json_normalize(records) ==
  LET flat == [r \in 1..Len(records) |-> FlattenRecord(<<>>, records[r].items)]
  IN FrameOfRecords(flat, AllKeys(flat))

ListLengths(members) ==
  {Len(Val(members[i]).items) : i \in {j \in 1..Len(members) : IsList(Val(members[j]))}}

\* pd.DataFrame(dict) succeeds on no columns at all, or on arrays of one
\* length (scalars beside them are repeated); all scalars, or arrays of
\* different lengths, raise ValueError
FrameOfDictOk(members) ==
  members = <<>> \/ Cardinality(ListLengths(members)) = 1

FrameOfDict(members) ==
  LET n == IF members = <<>> THEN 0 ELSE CHOOSE l \in ListLengths(members) : TRUE
  IN DataFrame([c \in 1..Len(members) |-> Key(members[c])],
       [r \in 1..n |->
          [c \in 1..Len(members) |->
             IF IsList(Val(members[c])) THEN Val(members[c]).items[r]
             ELSE Val(members[c])]])

\* ValueFrame, were the value stored as it is and not as str(data)
ValueFrameRaw(data) == DataFrame(<<PyStr(<<"v","a","l","u","e">>)>>, <<<<data>>>>)

\* the fallback frame of a parsed value that is neither list nor dict
ValueFrame(data) ==
  DataFrame(<<PyStr(<<"v","a","l","u","e">>)>>, <<<<PyStr(Str(data))>>>>)

JsonFrame(data) ==
  IF IsList(data) THEN json_normalize(data.items)
  ELSE IF IsDict(data) THEN
    IF FrameOfDictOk(data.items) THEN FrameOfDict(data.items)
    ELSE json_normalize(<<data>>)
  ELSE ValueFrame(data)

_read_json(file) == Ok(<<JsonFrame(JsonLoad(file))>>)

------------------------------------------------------------------------------
(* _read_xml.  A parsed tree is the sequence of its elements in document    *)
(* order (the order of root.iter()); each element names its parent (0 for   *)
(* the root).                                                               *)

\* list(elem): the children of element i, in document order
Children(tree, i) == SelectSeq([j \in 1..Len(tree) |-> j], LAMBDA j : tree[j].parent = i)

\* IsLeafParent, were every element with children taken for a row
IsLeafParentAnyDepth(tree, i) == Children(tree, i) # <<>>

\* len(list(child)) and all(len(list(c)) == 0 for c in child)
IsLeafParent(tree, i) ==
  /\ Children(tree, i) # <<>>
  /\ \A c \in Range(Children(tree, i)) : Children(tree, c) = <<>>

\* (k.text or "").strip()
TrimmedText(elem) == Strip(IF elem.text = PyNone THEN <<>> ELSE Str(elem.text))

\* row = {k.tag: (k.text or "").strip() for k in child}
LeafRow(tree, i) ==
  DictOf([n \in 1..Len(Children(tree, i)) |->
            PyItem(PyStr(tree[Children(tree, i)[n]].tag),
                   PyStr(TrimmedText(tree[Children(tree, i)[n]])))])

\* rows: one per leaf-parent element, in the order of root.iter()
LeafRows(tree) ==
  LET at == SelectSeq([j \in 1..Len(tree) |-> j], LAMBDA j : IsLeafParent(tree, j))
  IN [n \in 1..Len(at) |-> LeafRow(tree, at[n])]

\* sorted(columns)
SortedColumns(rows) ==
  LET names == Sorted({Str(k) : k \in Range(AllKeys(rows))})
  IN [c \in 1..Len(names) |-> PyStr(names[c])]

\* {"tag": elem.tag, "text": (elem.text or "").strip(), **elem.attrib}
FlatRow(elem) ==
  DictOf(<<PyItem(PyStr(<<"t","a","g">>), PyStr(elem.tag)),
           PyItem(PyStr(<<"t","e","x","t">>), PyStr(TrimmedText(elem)))>>
         \o [a \in 1..Len(elem.attrib) |->
               PyItem(PyStr(elem.attrib[a].name), PyStr(elem.attrib[a].value))])

FlatRows(tree) == [j \in 1..Len(tree) |-> FlatRow(tree[j])]

\* the except branch of _read_xml, on the tree ET.parse returned
XmlFallbackFrame(tree) ==
  IF LeafRows(tree) # <<>>
    THEN FrameOfRecords(LeafRows(tree), SortedColumns(LeafRows(tree)))
    ELSE FrameOfRecords(FlatRows(tree), AllKeys(FlatRows(tree)))

_read_xml(file) ==
  IF file.read_xml.ok THEN Ok(<<file.read_xml.val>>)
  ELSE IF file.parse.ok THEN Ok(<<XmlFallbackFrame(file.parse.val)>>)
  ELSE file.parse

------------------------------------------------------------------------------
(* _read_pdf *)

PdfTablePages == 5
PdfTextPages == 3
PdfSnippetBytes == 2000

Prefix(s, n) == SubSeq(s, 1, IF Len(s) < n THEN Len(s) ELSE n)

TextColumn == <<PyStr(<<"t","e","x","t">>)>>

\* the frame of one extracted grid t (a non-empty list of rows)
GridFrame(t) ==
  IF \A c \in 1..Len(t[1]) : IsStr(t[1][c])
    THEN DataFrame(t[1], Tail(t))
    ELSE DataFrame([c \in 1..Len(t[1]) |-> PyInt(c - 1)], t)

\* the frames of one page: page.extract_tables() or [], empty grids skipped
PageFrames(page) ==
  LET grids == SelectSeq(page.tables, LAMBDA t : t # <<>>)
  IN [n \in 1..Len(grids) |-> GridFrame(grids[n])]

\* dfs after the loop over pdf.pages[:5]
PdfFrames(pages) ==
  Concat([p \in 1..Len(Prefix(pages, PdfTablePages)) |-> PageFrames(pages[p])])

\* PdfTexts, were the text fallback to scan as many pages as the table scan
PdfTextsOfTablePages(pages) ==
  [p \in 1..Len(Prefix(pages, PdfTablePages)) |->
     IF pages[p].text = PyNone THEN PyStr(<<>>) ELSE pages[p].text]

\* texts = [page.extract_text() or "" for page in pdf.pages[:3]]
PdfTexts(pages) ==
  [p \in 1..Len(Prefix(pages, PdfTextPages)) |->
     IF pages[p].text = PyNone THEN PyStr(<<>>) ELSE pages[p].text]

\* return [pd.DataFrame({"text": texts})]
PdfTextFallback(pages) ==
  <<DataFrame(TextColumn, [p \in 1..Len(PdfTexts(pages)) |-> <<PdfTexts(pages)[p]>>])>>

_read_pdf(file, has_pdf) ==
  IF ~has_pdf
    THEN Ok(<<DataFrame(TextColumn, <<<<PyStr(Prefix(file.raw, PdfSnippetBytes))>>>>)>>)
  ELSE IF ~file.open.ok THEN file.open
  ELSE IF PdfFrames(file.open.val) = <<>> THEN Ok(PdfTextFallback(file.open.val))
  ELSE Ok(PdfFrames(file.open.val))

------------------------------------------------------------------------------
(* read_file *)

\* which branch of read_file the (lower-cased) suffix selects
Decoder(sfx) ==
  LET s == Lower(sfx) IN
  IF s = <<".","c","s","v">> THEN "csv"
  ELSE IF s \in {<<".","x","l","s","x">>, <<".","x","l","s">>} THEN "excel"
  ELSE IF s = <<".","j","s","o","n">> THEN "json"
  ELSE IF s = <<".","x","m","l">> THEN "xml"
  ELSE IF s = <<".","p","d","f">> THEN "pdf"
  ELSE "none"

read_file(file, sfx, has_pdf) ==
  LET d == Decoder(sfx) IN
  IF d = "csv" THEN _read_csv(file)
  ELSE IF d = "excel" THEN _read_excel(file)
  ELSE IF d = "json" THEN _read_json(file)
  ELSE IF d = "xml" THEN _read_xml(file)
  ELSE IF d = "pdf" THEN _read_pdf(file, has_pdf)
  ELSE Raise("ValueError: Unsupported input")

------------------------------------------------------------------------------
(* The inputs the model draws from *)

SeqsUpTo(S, n) == UNION {[1..k -> S] : k \in 0..n}

A == <<"a">>
B == <<"b">>

SUPPORTED_INPUTS ==
  {<<".","c","s","v">>, <<".","x","l","s","x">>, <<".","x","l","s">>,
   <<".","j","s","o","n">>, <<".","x","m","l">>, <<".","p","d","f">>}

SUPPORTED_OUTPUTS ==
  {<<"C","S","V">>, <<"E","x","c","e","l"," ","(",".","x","l","s","x",")">>,
   <<"J","S","O","N">>, <<"X","M","L">>}

Cells == {PyNone, PyNaN, PyInt(1), PyStr(<<"x">>), PyTimestamp}

\* column labels: names, a blank name, integer labels of a header-less grid
ColumnLists ==
  {<<PyStr(A)>>, <<PyStr(A), PyStr(B)>>, <<PyStr(<<" ">>), PyInt(0)>>}

\* the cells of the frames of two columns
WideCells == {PyNone, PyNaN, PyInt(1)}

FramesOver(columns, cells, n) ==
  {DataFrame(columns, rows) : rows \in SeqsUpTo([1..Len(columns) -> cells], n)}

\* frames of up to MaxRows rows
RichFrames ==
  UNION {FramesOver(cols, IF Len(cols) = 1 THEN Cells ELSE WideCells, MaxRows) :
           cols \in ColumnLists}

\* one-column frames of at most one row
SimpleFrames == FramesOver(<<PyStr(A)>>, Cells, 1)

\* TableSets handed to df_to_bytes: one frame of any shape, or up to
\* MaxTables simple frames (none included)
TableSets == {<<f>> : f \in RichFrames} \cup SeqsUpTo(SimpleFrames, MaxTables)

CsvFiles ==
  {[read_csv |-> r] : r \in {Raise("ParserError")} \cup {Ok(f) : f \in SimpleFrames}}

\* a workbook: unreadable, or its worksheets in order (a workbook whose only
\* sheets are chart sheets has none)
ExcelFiles ==
  {[ExcelFile |-> Raise("BadZipFile")]} \cup
  {[ExcelFile |-> Ok([i \in 1..Len(fs) |->
                        [sheet_name |-> <<"S">> \o IntStr(i), df |-> fs[i]]])] :
     fs \in SeqsUpTo(SimpleFrames, MaxTables)}

JsonScalars == {PyNone, PyInt(1), PyStr(<<"x">>)}

JsonKeys == {PyStr(A), PyStr(B)}

\* dicts of at most two members with distinct keys and values in V
DictsOver(V) ==
  {PyDict(<<>>)} \cup
  {PyDict(<<PyItem(k, v)>>) : k \in JsonKeys, v \in V} \cup
  {PyDict(<<PyItem(k[1], v[1]), PyItem(k[2], v[2])>>) :
     k \in {q \in JsonKeys \X JsonKeys : q[1] # q[2]}, v \in V \X V}

\* records: a scalar field and a nested record
JsonRecords == DictsOver({PyInt(1), PyDict(<<PyItem(PyStr(B), PyInt(1))>>)})

\* column-oriented documents: fields that are scalars or arrays of scalars
JsonColumnDicts ==
  DictsOver({PyInt(1), PyList(<<>>), PyList(<<PyInt(1)>>),
             PyList(<<PyInt(1), PyStr(<<"x">>)>>)})

\* what json.loads returns for a whole document
JsonDocuments ==
  JsonScalars \cup JsonColumnDicts
  \cup {PyList(rs) : rs \in SeqsUpTo(JsonRecords \ {PyDict(<<>>)}, MaxRows)}

\* what json.loads does with each line of a document that fails as a whole;
\* a one-line document fails as a line too
JsonLineRuns ==
  {ls \in SeqsUpTo({Raise("JSONDecodeError")} \cup
                   {Ok(r) : r \in JsonRecords \ {PyDict(<<>>)}}, MaxLines) :
     Len(ls) = 1 => ~ls[1].ok}

JsonFiles ==
  {[doc |-> Ok(d), lines |-> <<>>] : d \in JsonDocuments} \cup
  {[doc |-> Raise("JSONDecodeError"), lines |-> ls] : ls \in JsonLineRuns}

\* parent arrays of the trees of n elements numbered in document order
RECURSIVE IsAncestorOrSelf(_, _, _)
IsAncestorOrSelf(par, a, j) ==
  a = j \/ (par[j] # 0 /\ IsAncestorOrSelf(par, a, par[j]))

ParentArrays(n) ==
  {par \in [1..n -> 0..(n - 1)] :
     /\ par[1] = 0
     /\ \A j \in 2..n : par[j] \in 1..(j - 1) /\ IsAncestorOrSelf(par, par[j], j - 1)}

XmlTags == {A, B}
XmlTexts == {PyNone, PyStr(<<" ","x","\n">>)}
XmlAttribs ==
  {<<>>, <<[name |-> <<"i","d">>, value |-> <<"7">>]>>,
   <<[name |-> <<"t","a","g">>, value |-> <<"z">>]>>}

\* the texts of the elements of a tree: text on the childless elements only
TextsOn(par) ==
  {tx \in [DOMAIN par -> XmlTexts] :
     \A j \in DOMAIN par : (\E m \in DOMAIN par : par[m] = j) => tx[j] = PyNone}

\* trees of up to MaxNodes elements; attributes on the root only
XmlTrees ==
  UNION {UNION {{[j \in 1..n |->
                    [tag |-> tg[j], text |-> tx[j], parent |-> par[j],
                     attrib |-> IF j = 1 THEN at ELSE <<>>]] :
                   tg \in [1..n -> XmlTags], tx \in TextsOn(par), at \in XmlAttribs} :
                  par \in ParentArrays(n)} : n \in 1..MaxNodes}

\* pd.read_xml infers a frame, or fails and ET.parse fails too or parses
XmlFiles ==
  {[read_xml |-> Ok(f), parse |-> Raise("unused")] : f \in SimpleFrames} \cup
  {[read_xml |-> Raise("ImportError"), parse |-> Raise("ParseError")]} \cup
  {[read_xml |-> Raise("ImportError"), parse |-> Ok(tr)] : tr \in XmlTrees}

HeaderGrid ==
  <<<<PyStr(<<"h">>), PyStr(<<" ">>)>>, <<PyStr(<<"v">>), PyNone>>>>
BareGrid ==
  <<<<PyNone, PyStr(<<"h">>)>>, <<PyStr(<<"v">>), PyStr(<<"w">>)>>>>

\* what pdfplumber extracts from one page (tables: extract_tables() or [])
PdfPages ==
  {[tables |-> <<>>, text |-> PyNone],
   [tables |-> <<<<>>>>, text |-> PyStr(<<"p">>)],
   [tables |-> <<HeaderGrid>>, text |-> PyStr(<<"q">>)],
   [tables |-> <<<<>>, BareGrid>>, text |-> PyStr(<<"p">>)]}

PdfRaw == <<"%","P","D","F">>

PdfFiles ==
  {[raw |-> PdfRaw, open |-> Raise("PDFSyntaxError")]} \cup
  {[raw |-> PdfRaw, open |-> Ok(ps)] : ps \in SeqsUpTo(PdfPages, MaxPages)}

NoFile == [raw |-> <<>>]

FilesFor(decoder) ==
  IF decoder = "csv" THEN CsvFiles
  ELSE IF decoder = "excel" THEN ExcelFiles
  ELSE IF decoder = "json" THEN JsonFiles
  ELSE IF decoder = "xml" THEN XmlFiles
  ELSE IF decoder = "pdf" THEN PdfFiles
  ELSE {NoFile}

\* suffixes read_file is called with: the supported ones, in other cases,
\* and ones it does not know
TestSuffixes ==
  SUPPORTED_INPUTS \cup
  {<<".","C","S","V">>, <<".","X","l","s">>, <<".","t","x","t">>, <<"c","s","v">>,
   <<".","c","s","v","x">>, <<>>}

\* tags df_to_bytes is called with
TestOutputs ==
  SUPPORTED_OUTPUTS \cup
  {<<"c","s","v">>, <<"E","X","C","E","L">>, <<"e","x","c","e","l","s","i","o","r">>,
   <<"y","a","m","l">>, <<"x","m","l"," ">>, <<>>}

------------------------------------------------------------------------------
(* The script run: the upload loop (lines 162-195) *)

Named(name, file) == [name |-> name] @@ file

\* the files of a batch: for each format a file that cannot be read and
\* files that can, among them a workbook of no, one and two worksheets, a
\* frame JSON cannot serialize, an upper-case extension
BatchFiles ==
  {Named(<<"t",".","c","s","v">>, [read_csv |-> Raise("ParserError")]),
   Named(<<"t",".","C","S","V">>,
         [read_csv |-> Ok(DataFrame(<<PyStr(A)>>, <<<<PyTimestamp>>>>))]),
   Named(<<"w",".","x","l","s","x">>, [ExcelFile |-> Ok(<<>>)]),
   Named(<<"w",".","x","l","s">>,
         [ExcelFile |-> Ok(<<[sheet_name |-> <<"S","1">>,
                              df |-> DataFrame(<<PyStr(A)>>, <<<<PyNaN>>>>)]>>)]),
   Named(<<"w",".","v","2",".","x","l","s","x">>,
         [ExcelFile |-> Ok(<<[sheet_name |-> <<"S","1">>,
                              df |-> DataFrame(<<PyStr(A)>>, <<<<PyInt(1)>>>>)],
                             [sheet_name |-> <<"S","2">>,
                              df |-> DataFrame(<<PyStr(B)>>, <<<<PyNone>>>>)]>>)]),
   Named(<<"d",".","j","s","o","n">>,
         [doc |-> Raise("JSONDecodeError"), lines |-> <<>>]),
   Named(<<"d",".","x","m","l">>,
         [read_xml |-> Raise("ImportError"), parse |-> Raise("ParseError")]),
   Named(<<"d",".","p","d","f">>,
         [raw |-> PdfRaw,
          open |-> Ok(<<[tables |-> <<HeaderGrid>>, text |-> PyNone],
                        [tables |-> <<BareGrid>>, text |-> PyNone]>>)])}

UiElement(kind, file) == [kind |-> kind, file |-> file]

\* suffix = "." + up.name.split(".")[-1].lower()
SuffixOf(name) == <<".">> \o Lower(LastPart(name))

\* out_fmt == "CSV" and len(dfs) > 1
FirstSheetOnly(fmt, tables) == fmt = <<"C","S","V">> /\ Len(tables) > 1

NotCalled == Raise("not called")

\* st.warning of _read_pdf when pdfplumber is missing
PdfWarning(sfx, has_pdf, file) ==
  IF Decoder(sfx) = "pdf" /\ ~has_pdf
    THEN <<UiElement("warning: PDF support requires pdfplumber", file)>>
    ELSE <<>>

Init ==
  /\ uploaded \in SeqsUpTo(BatchFiles, MaxFiles)
  /\ out_fmt \in SUPPORTED_OUTPUTS
  /\ HAS_PDF \in BOOLEAN
  /\ idx = 1
  /\ suffix = <<>>
  /\ pc = "loop"
  /\ dfs = <<>>
  /\ ret = NotCalled
  /\ ui = <<>>

\* if not uploaded: st.info(...); st.stop()
NoUpload ==
  /\ pc = "loop" /\ uploaded = <<>>
  /\ ui' = Append(ui, UiElement("info", 0))
  /\ pc' = "stopped"
  /\ UNCHANGED <<uploaded, out_fmt, HAS_PDF, idx, suffix, dfs, ret>>

\* for up in uploaded: suffix, divider, subheader
NextFile ==
  /\ pc = "loop" /\ idx <= Len(uploaded)
  /\ suffix' = SuffixOf(uploaded[idx].name)
  /\ ui' = ui \o <<UiElement("divider", idx), UiElement("subheader", idx)>>
  /\ pc' = "read"
  /\ UNCHANGED <<uploaded, out_fmt, HAS_PDF, idx, dfs, ret>>

\* Read, were a failing read_file to end the run instead of the iteration
ReadAborting ==
  /\ pc = "read"
  /\ ret' = read_file(uploaded[idx], suffix, HAS_PDF)
  /\ IF ret'.ok
       THEN /\ dfs' = ret'.val
            /\ ui' = ui \o PdfWarning(suffix, HAS_PDF, idx)
                        \o <<UiElement("preview", idx)>>
            /\ pc' = "export"
            /\ idx' = idx
       ELSE /\ dfs' = dfs
            /\ ui' = ui \o PdfWarning(suffix, HAS_PDF, idx)
                        \o <<UiElement("error: Could not read file", idx)>>
            /\ pc' = "done"
            /\ idx' = idx
  /\ UNCHANGED <<uploaded, out_fmt, HAS_PDF, suffix>>

\* try: dfs = read_file(up, suffix) except: st.error; continue -- then the preview
Read ==
  /\ pc = "read"
  /\ ret' = read_file(uploaded[idx], suffix, HAS_PDF)
  /\ IF ret'.ok
       THEN /\ dfs' = ret'.val
            /\ ui' = ui \o PdfWarning(suffix, HAS_PDF, idx)
                        \o <<UiElement("preview", idx)>>
            /\ pc' = "export"
            /\ idx' = idx
       ELSE /\ dfs' = dfs
            /\ ui' = ui \o PdfWarning(suffix, HAS_PDF, idx)
                        \o <<UiElement("error: Could not read file", idx)>>
            /\ pc' = "loop"
            /\ idx' = idx + 1
  /\ UNCHANGED <<uploaded, out_fmt, HAS_PDF, suffix>>

\* Export, were the download button rendered whatever df_to_bytes did
ExportAlwaysOffering ==
  /\ pc = "export"
  /\ ret' = df_to_bytes(dfs, out_fmt)
  /\ ui' = ui \o <<UiElement("download_button", idx)>> \o
           (IF ret'.ok THEN <<>> ELSE <<UiElement("error: Export failed", idx)>>)
  /\ idx' = idx + 1
  /\ pc' = "loop"
  /\ UNCHANGED <<uploaded, out_fmt, HAS_PDF, suffix, dfs>>

\* try: df_to_bytes, download_button, caption except: st.error
Export ==
  /\ pc = "export"
  /\ ret' = df_to_bytes(dfs, out_fmt)
  /\ ui' = IF ret'.ok
             THEN ui \o <<UiElement("download_button", idx)>> \o
                  (IF FirstSheetOnly(out_fmt, dfs)
                     THEN <<UiElement("caption: only the first sheet", idx)>>
                     ELSE <<>>)
             ELSE Append(ui, UiElement("error: Export failed", idx))
  /\ idx' = idx + 1
  /\ pc' = "loop"
  /\ UNCHANGED <<uploaded, out_fmt, HAS_PDF, suffix, dfs>>

\* the loop is over
Finish ==
  /\ pc = "loop" /\ uploaded # <<>> /\ idx > Len(uploaded)
  /\ pc' = "done"
  /\ UNCHANGED <<uploaded, out_fmt, HAS_PDF, idx, suffix, dfs, ret, ui>>

Next == NoUpload \/ NextFile \/ Read \/ Export \/ Finish

Spec == Init /\ [][Next]_vars

------------------------------------------------------------------------------
(* The core entry points called on their own: read_file on any suffix and   *)
(* file, df_to_bytes on any TableSet and tag                                *)

InitCore ==
  /\ HAS_PDF \in BOOLEAN
  /\ idx = 1
  /\ ui = <<>>
  /\ ret = NotCalled
  /\ \/ /\ pc = "call read_file"
        /\ suffix \in TestSuffixes
        /\ uploaded \in {<<f>> : f \in FilesFor(Decoder(suffix))}
        /\ Decoder(suffix) # "pdf" => HAS_PDF
        /\ out_fmt = <<>>
        /\ dfs = <<>>
     \/ /\ pc = "call df_to_bytes"
        /\ out_fmt \in TestOutputs
        /\ dfs \in TableSets
        /\ HAS_PDF
        /\ suffix = <<>>
        /\ uploaded = <<>>

CallReadFile ==
  /\ pc = "call read_file"
  /\ ret' = read_file(uploaded[1], suffix, HAS_PDF)
  /\ pc' = "read_file returned"
  /\ UNCHANGED <<uploaded, out_fmt, HAS_PDF, idx, suffix, dfs, ui>>

CallDfToBytes ==
  /\ pc = "call df_to_bytes"
  /\ ret' = df_to_bytes(dfs, out_fmt)
  /\ pc' = "df_to_bytes returned"
  /\ UNCHANGED <<uploaded, out_fmt, HAS_PDF, idx, suffix, dfs, ui>>

NextCore == CallReadFile \/ CallDfToBytes

SpecCore == InitCore /\ [][NextCore]_vars

------------------------------------------------------------------------------
(* Claims about the upload loop (Spec) *)

\* the files of the ui elements of these kinds, in the order rendered
FilesOf(kinds) ==
  LET es == SelectSeq(ui, LAMBDA e : e.kind \in kinds)
  IN [n \in 1..Len(es) |-> es[n].file]

CountOf(kinds, f) == Cardinality({n \in 1..Len(ui) : ui[n].kind \in kinds /\ ui[n].file = f})

ReadErrors == {"error: Could not read file"}
ExportErrors == {"error: Export failed"}
Downloads == {"download_button"}
Captions == {"caption: only the first sheet"}

\* the files whose iteration is over
Finished == 1..(idx - 1)

\* C1: a failure while decoding or encoding a file never aborts the batch:
\* the files are taken up exactly once each and in upload order, the run
\* ends only after the last one, every file taken up is decoded exactly
\* once whatever happened to the files before it, and encoded exactly once
\* if and only if its decoding succeeded.
C1_BatchNeverAborts ==
  /\ pc \in {"done", "stopped"} \/ ENABLED Next
  /\ FilesOf({"subheader"}) =
       [n \in 1..(IF pc \in {"read", "export"} THEN idx ELSE idx - 1) |-> n]
  /\ pc = "done" => idx = Len(uploaded) + 1
  /\ \A f \in Finished :
       /\ CountOf({"preview"} \cup ReadErrors, f) = 1
       /\ CountOf(Downloads \cup ExportErrors, f) = CountOf({"preview"}, f)

\* a batch of two is over; the first file failed to decode, the second
\* failed to encode
C1_Witness ==
  /\ pc = "done" /\ Len(uploaded) = 2
  /\ CountOf(ReadErrors, 1) = 1
  /\ CountOf(ExportErrors, 2) = 1

DecodeOf(f) == read_file(uploaded[f], SuffixOf(uploaded[f].name), HAS_PDF)

Converted(f) == DecodeOf(f).ok /\ df_to_bytes(DecodeOf(f).val, out_fmt).ok

\* C2: for every file the outcome is a complete buffer or an error, never
\* both: a download is offered exactly when decode and encode both
\* succeeded (and then it is the whole buffer df_to_bytes returned), and an
\* error is reported exactly when one of them failed.
C2_OutputOrError ==
  /\ \A f \in Finished :
       /\ CountOf(Downloads, f) = (IF Converted(f) THEN 1 ELSE 0)
       /\ CountOf(ReadErrors \cup ExportErrors, f) = (IF Converted(f) THEN 0 ELSE 1)
  /\ \A n \in 1..Len(ui) : ui[n].kind \in Downloads => ui[n].file \in Finished
  /\ (pc = "loop" /\ idx > 1 /\ CountOf(Downloads, idx - 1) = 1) =>
       ret = df_to_bytes(DecodeOf(idx - 1).val, out_fmt)

\* one file of the batch was decoded and could not be encoded, another was
\* converted
C2_Witness ==
  /\ pc = "done"
  /\ \E f \in Finished : DecodeOf(f).ok /\ CountOf(ExportErrors, f) = 1
  /\ \E f \in Finished : CountOf(Downloads, f) = 1

\* the download of the file just finished is the one in ret
JustOffered == pc = "loop" /\ idx > 1 /\ CountOf(Downloads, idx - 1) = 1

\* C5: a CSV export of a TableSet of two or more Tables holds the first
\* Table alone, and the caller is told so; with exactly one Table no notice
\* is given.
C5_CsvFirstTableOnly ==
  /\ (JustOffered /\ out_fmt = <<"C","S","V">>) =>
       /\ ret.val.kind = "csv"
       /\ ret.val.doc = ToCsv(Head(DecodeOf(idx - 1).val))
  /\ \A f \in Finished :
       CountOf(Captions, f) =
         (IF out_fmt = <<"C","S","V">> /\ Converted(f) /\ Len(DecodeOf(f).val) >= 2
            THEN 1 ELSE 0)

\* a workbook of two different sheets was exported to CSV
C5_Witness ==
  /\ JustOffered /\ out_fmt = <<"C","S","V">>
  /\ Len(dfs) = 2 /\ dfs[1] # dfs[2]
  /\ CountOf(Captions, idx - 1) = 1

------------------------------------------------------------------------------
(* Claims about the dispatchers (SpecCore) *)

ReadReturned == pc = "read_file returned"
EncodeReturned == pc = "df_to_bytes returned"

LowerOf(S) == {Lower(x) : x \in S}

\* the encoder each supported output names
EncoderOf(o) ==
  IF Lower(o) = <<"c","s","v">> THEN "csv"
  ELSE IF Lower(o) = <<"j","s","o","n">> THEN "json"
  ELSE IF Lower(o) = <<"x","m","l">> THEN "xml"
  ELSE "xlsx"

\* C3: a recognized source tag (one of SUPPORTED_INPUTS, compared without
\* case) selects its one decoder and a recognized destination tag (one of
\* SUPPORTED_OUTPUTS) its one encoder; every other tag makes read_file /
\* df_to_bytes fail with the unsupported-format error.
C3_Dispatch ==
  /\ ReadReturned =>
       IF Lower(suffix) \in SUPPORTED_INPUTS
         THEN ret # Raise("ValueError: Unsupported input")
         ELSE ret = Raise("ValueError: Unsupported input")
  /\ EncodeReturned =>
       IF Lower(out_fmt) \in LowerOf(SUPPORTED_OUTPUTS)
         THEN ret.ok => ret.val.kind = EncoderOf(out_fmt)
         ELSE ret = Raise("ValueError: Unsupported output format.")

\* C4: whenever a decoder returns, the TableSet it returns holds at least
\* one Table.
C4_TableSetNonEmpty == (ReadReturned /\ ret.ok) => Len(ret.val) >= 1

------------------------------------------------------------------------------
(* Claims about the encoders (SpecCore) *)

\* the JSON array holds one object per row of df, in row order, each object
\* mapping the columns, in order, to the row's cells
IsRecordArray(v, df) ==
  /\ v.k = "list"
  /\ Len(v.items) = Len(df.rows)
  /\ \A r \in 1..Len(df.rows) :
       /\ v.items[r].k = "dict"
       /\ Len(v.items[r].items) = Len(df.columns)
       /\ \A c \in 1..Len(df.columns) :
            v.items[r].items[c].items = <<df.columns[c], df.rows[r][c]>>

\* C6: the JSON of a TableSet of exactly one Table is that Table's array of
\* records, not wrapped; of two or more Tables it is an array with one
\* array of records per Table, in Table order.
C6_JsonShape ==
  (EncodeReturned /\ Encoder(out_fmt) = "json" /\ ret.ok) =>
    /\ ret.val.kind = "json"
    /\ Len(dfs) = 1 => IsRecordArray(ret.val.doc, dfs[1])
    /\ Len(dfs) >= 2 =>
         /\ ret.val.doc.k = "list"
         /\ Len(ret.val.doc.items) = Len(dfs)
         /\ \A i \in 1..Len(dfs) : IsRecordArray(ret.val.doc.items[i], dfs[i])

\* both shapes are produced from Tables that have rows
C6_Witness ==
  /\ EncodeReturned /\ Encoder(out_fmt) = "json" /\ ret.ok
  /\ Len(dfs) = 1 /\ Len(dfs[1].rows) = 2 /\ Len(dfs[1].columns) = 2

HasNull(tables) ==
  \E i \in 1..Len(tables) : \E r \in 1..Len(tables[i].rows) :
    \E c \in 1..Len(tables[i].columns) : IsNull(tables[i].rows[r][c])

\* C7: a TableSet that holds a null is encoded to CSV and to XML without
\* error, and every null cell is written as the empty field / the empty
\* text.
C7_NullsRenderEmpty ==
  (EncodeReturned /\ Encoder(out_fmt) \in {"csv", "xml"} /\ HasNull(dfs)) =>
    /\ ret.ok
    /\ Encoder(out_fmt) = "csv" =>
         \A r \in 1..Len(dfs[1].rows) : \A c \in 1..Len(dfs[1].columns) :
           IsNull(dfs[1].rows[r][c]) => ret.val.doc[r + 1][c] = <<>>
    /\ Encoder(out_fmt) = "xml" =>
         \A i \in 1..Len(dfs) : \A r \in 1..Len(dfs[i].rows) :
           \A c \in 1..Len(dfs[i].columns) :
             IsNull(dfs[i].rows[r][c]) =>
               ret.val.doc.children[i].children[r].children[c].text = <<>>

------------------------------------------------------------------------------
(* Claims about the decoders (SpecCore) *)

JsonReturned == ReadReturned /\ Decoder(suffix) = "json"

\* neither the whole document nor any of its lines yields a row: the
\* document is the empty sequence, or it fails as a whole and no line parses
YieldsNoRow(file) ==
  IF file.doc.ok THEN file.doc.val = PyList(<<>>)
  ELSE \A l \in 1..Len(file.lines) : ~file.lines[l].ok

IsScalar(v) == v.k \notin {"list", "dict"}

\* a Table of one row and one column
IsOneByOne(df) == Len(df.columns) = 1 /\ Len(df.rows) = 1

Min(a, b) == IF a < b THEN a ELSE b

\* the collaborator is there, the document opens, and none of the pages
\* scanned for tables (the first 5) yields a grid
PdfTextCase ==
  /\ ReadReturned /\ Decoder(suffix) = "pdf" /\ HAS_PDF
  /\ uploaded[1].open.ok
  /\ \A p \in 1..Min(5, Len(uploaded[1].open.val)) :
       \A n \in 1..Len(uploaded[1].open.val[p].tables) :
         uploaded[1].open.val[p].tables[n] = <<>>

\* the text of page p, the empty string when there is none
PageText(p) ==
  IF uploaded[1].open.val[p].text = PyNone THEN PyStr(<<>>)
  ELSE uploaded[1].open.val[p].text

\* C9 as stated, for a document that has pages: with no grid the decoder
\* returns one Table per page of the text fallback (the first 3 pages at
\* most), each holding that page's text.
C9_OneTablePerPage ==
  (PdfTextCase /\ uploaded[1].open.val # <<>>) =>
    /\ ret.ok
    /\ Len(ret.val) = Min(3, Len(uploaded[1].open.val))
    /\ \A p \in 1..Len(ret.val) :
         ret.val[p] = DataFrame(<<PyStr(<<"t","e","x","t">>)>>, <<<<PageText(p)>>>>)

\* C9 as amended: with no grid the decoder returns exactly one Table, of the
\* single column "text", with one row per page of the text fallback (the
\* first 3 pages at most, in page order), each row holding that page's text
\* or the empty string.
C9_OneRowPerPage ==
  PdfTextCase =>
    /\ ret.ok
    /\ Len(ret.val) = 1
    /\ ret.val[1].columns = <<PyStr(<<"t","e","x","t">>)>>
    /\ Len(ret.val[1].rows) = Min(3, Len(uploaded[1].open.val))
    /\ \A p \in 1..Len(ret.val[1].rows) : ret.val[1].rows[p] = <<PageText(p)>>

\* six pages, a grid on the sixth only, a page without text among the
\* first three
C9_Witness ==
  /\ PdfTextCase
  /\ Len(uploaded[1].open.val) = 6
  /\ uploaded[1].open.val[6].tables # <<>>
  /\ uploaded[1].open.val[2].text = PyNone
  /\ Len(ret.val[1].rows) = 3

\* markup decode took the except branch and ET.parse returned a tree
XmlTreeCase ==
  /\ ReadReturned /\ Decoder(suffix) = "xml"
  /\ ~uploaded[1].read_xml.ok /\ uploaded[1].parse.ok

Tree == uploaded[1].parse.val

ChildrenOf(i) == {j \in 1..Len(Tree) : Tree[j].parent = i}

\* the elements with a child whose children are all childless
LeafParents == {i \in 1..Len(Tree) :
                  ChildrenOf(i) # {} /\ \A j \in ChildrenOf(i) : ChildrenOf(j) = {}}

\* the n-th element of a set of numbers, counted from the smallest
Nth(S, n) == CHOOSE x \in S : Cardinality({y \in S : y < x}) = n - 1

Trimmed(text) == IF text = PyNone THEN <<>> ELSE Strip(text.s)

\* the text the row of element i holds for a tag: that of its last child of
\* the tag, NaN when it has none
RowCell(i, tag) ==
  LET having == {j \in ChildrenOf(i) : Tree[j].tag = tag}
  IN IF having = {} THEN PyNaN
     ELSE PyStr(Trimmed(Tree[CHOOSE j \in having : \A m \in having : m <= j].text))

ChildTags == {Tree[j].tag : j \in UNION {ChildrenOf(i) : i \in LeafParents}}

AttribNames(j) == {Tree[j].attrib[a].name : a \in 1..Len(Tree[j].attrib)}

====
